---- MODULE Spec2Model ----
(***************************************************************************)
(* A model of the multi-handle tweet scraper: the seen-tweet store         *)
(* (tweet_scraper.py), the per-handle pipeline extract_tweets_from_handle, *)
(* the aggregator extract_tweets_from_multiple_handles and the classifier  *)
(* (classifier.py, config.py).                                             *)
(***************************************************************************)
EXTENDS Integers, Sequences, FiniteSets, TLC

(***************************************************************************)
(* Bounds of the model.                                                    *)
(***************************************************************************)
\* Number of scraper processes (constructions of TwitterScraper) in a behaviour.
MaxRuns == 2
\* Number of environment faults in a behaviour: failed fetches, failed file
\* writes, anomalous backend answers, process crashes.
MaxFaults == 2

(***************************************************************************)
(* Strings.  A Python str is a sequence of characters; TLA+ strings are    *)
(* atomic, so Chars gives the characters of every string whose contents    *)
(* the program inspects (tweet texts and the keywords of config.py).       *)
(***************************************************************************)
Chars ==
       "" :> <<>>
    @@ "gm" :> <<"g", "m">>
    @@ "lol" :> <<"l", "o", "l">>
    @@ "IPO" :> <<"I", "P", "O">>
    @@ "Tesla" :> <<"T", "e", "s", "l", "a">>
    @@ "said" :> <<"s", "a", "i", "d">>
    @@ "IPO Meta" :> <<"I", "P", "O", " ", "M", "e", "t", "a">>
    @@ "Launch AI" :> <<"L", "a", "u", "n", "c", "h", " ", "A", "I">>
    @@ "TESLA AI" :> <<"T", "E", "S", "L", "A", " ", "A", "I">>
    @@ "IPO Meta AI" :> <<"I", "P", "O", " ", "M", "e", "t", "a", " ", "A", "I">>
    @@ "announcement" :> <<"a", "n", "n", "o", "u", "n", "c", "e", "m", "e", "n", "t">>
    @@ "announcing" :> <<"a", "n", "n", "o", "u", "n", "c", "i", "n", "g">>
    @@ "excited to announce" :> <<"e", "x", "c", "i", "t", "e", "d", " ", "t", "o", " ", "a", "n", "n", "o", "u", "n", "c", "e">>
    @@ "breaking:" :> <<"b", "r", "e", "a", "k", "i", "n", "g", ":">>
    @@ "news:" :> <<"n", "e", "w", "s", ":">>
    @@ "launching" :> <<"l", "a", "u", "n", "c", "h", "i", "n", "g">>
    @@ "launch" :> <<"l", "a", "u", "n", "c", "h">>
    @@ "release" :> <<"r", "e", "l", "e", "a", "s", "e">>
    @@ "unveiled" :> <<"u", "n", "v", "e", "i", "l", "e", "d">>
    @@ "introducing" :> <<"i", "n", "t", "r", "o", "d", "u", "c", "i", "n", "g">>
    @@ "acquisition" :> <<"a", "c", "q", "u", "i", "s", "i", "t", "i", "o", "n">>
    @@ "merger" :> <<"m", "e", "r", "g", "e", "r">>
    @@ "funding" :> <<"f", "u", "n", "d", "i", "n", "g">>
    @@ "investment" :> <<"i", "n", "v", "e", "s", "t", "m", "e", "n", "t">>
    @@ "ipo" :> <<"i", "p", "o">>
    @@ "public" :> <<"p", "u", "b", "l", "i", "c">>
    @@ "earnings" :> <<"e", "a", "r", "n", "i", "n", "g", "s">>
    @@ "quarterly results" :> <<"q", "u", "a", "r", "t", "e", "r", "l", "y", " ", "r", "e", "s", "u", "l", "t", "s">>
    @@ "xai" :> <<"x", "a", "i">>
    @@ "spacex" :> <<"s", "p", "a", "c", "e", "x">>
    @@ "tesla" :> <<"t", "e", "s", "l", "a">>
    @@ "neuralink" :> <<"n", "e", "u", "r", "a", "l", "i", "n", "k">>
    @@ "openai" :> <<"o", "p", "e", "n", "a", "i">>
    @@ "anthropic" :> <<"a", "n", "t", "h", "r", "o", "p", "i", "c">>
    @@ "microsoft" :> <<"m", "i", "c", "r", "o", "s", "o", "f", "t">>
    @@ "google" :> <<"g", "o", "o", "g", "l", "e">>
    @@ "apple" :> <<"a", "p", "p", "l", "e">>
    @@ "meta" :> <<"m", "e", "t", "a">>
    @@ "nvidia" :> <<"n", "v", "i", "d", "i", "a">>
    @@ "ai" :> <<"a", "i">>
    @@ "artificial intelligence" :> <<"a", "r", "t", "i", "f", "i", "c", "i", "a", "l", " ", "i", "n", "t", "e", "l", "l", "i", "g", "e", "n", "c", "e">>
    @@ "machine learning" :> <<"m", "a", "c", "h", "i", "n", "e", " ", "l", "e", "a", "r", "n", "i", "n", "g">>
    @@ "deep learning" :> <<"d", "e", "e", "p", " ", "l", "e", "a", "r", "n", "i", "n", "g">>
    @@ "gpt" :> <<"g", "p", "t">>
    @@ "llm" :> <<"l", "l", "m">>
    @@ "neural network" :> <<"n", "e", "u", "r", "a", "l", " ", "n", "e", "t", "w", "o", "r", "k">>
    @@ "transformer" :> <<"t", "r", "a", "n", "s", "f", "o", "r", "m", "e", "r">>
    @@ "model training" :> <<"m", "o", "d", "e", "l", " ", "t", "r", "a", "i", "n", "i", "n", "g">>

\* The tweet texts of the model ("" is a timeline item without tweet-content).
Texts ==
    {"", "gm", "lol", "IPO", "Tesla", "said", "IPO Meta", "Launch AI",
     "TESLA AI", "IPO Meta AI"}

\* str.lower() on one character: upper-case ASCII letters are mapped, every
\* other character is kept.
LowerChar ==
       "A" :> "a"
    @@ "B" :> "b"
    @@ "C" :> "c"
    @@ "D" :> "d"
    @@ "E" :> "e"
    @@ "F" :> "f"
    @@ "G" :> "g"
    @@ "H" :> "h"
    @@ "I" :> "i"
    @@ "J" :> "j"
    @@ "K" :> "k"
    @@ "L" :> "l"
    @@ "M" :> "m"
    @@ "N" :> "n"
    @@ "O" :> "o"
    @@ "P" :> "p"
    @@ "Q" :> "q"
    @@ "R" :> "r"
    @@ "S" :> "s"
    @@ "T" :> "t"
    @@ "U" :> "u"
    @@ "V" :> "v"
    @@ "W" :> "w"
    @@ "X" :> "x"
    @@ "Y" :> "y"
    @@ "Z" :> "z"

lower(s) ==
    [i \in 1..Len(s) |-> IF s[i] \in DOMAIN LowerChar THEN LowerChar[s[i]] ELSE s[i]]

\* Python's `keyword in text` on strings: keyword is a contiguous substring.
IsSubstring(keyword, text) ==
    \E i \in 0..(Len(text) - Len(keyword)) :
        SubSeq(text, i + 1, i + Len(keyword)) = keyword

KEYWORD_CONFIG ==
    [high_priority |-> <<"announcement", "announcing", "excited to announce",
                        "breaking:", "news:", "launching", "launch", "release",
                        "unveiled", "introducing", "acquisition", "merger",
                        "funding", "investment", "ipo", "public", "earnings",
                        "quarterly results">>,
     company_keywords |-> <<"xai", "spacex", "tesla", "neuralink", "openai",
                           "anthropic", "microsoft", "google", "apple", "meta",
                           "nvidia">>,
     tech_keywords |-> <<"ai", "artificial intelligence", "machine learning",
                        "deep learning", "gpt", "llm", "neural network",
                        "transformer", "model training">>]

\* any(keyword in text for keyword in keywords)
AnyKeyword(keywords, text) ==
    \E j \in 1..Len(keywords) : IsSubstring(Chars[keywords[j]], text)

\* Which keyword lists match tweet_data.get('text', '').lower(), per text.
KeywordHits ==
    [t \in Texts |->
        LET text == lower(Chars[t])
        IN  [high_priority |-> AnyKeyword(KEYWORD_CONFIG.high_priority, text),
             company_keywords |-> AnyKeyword(KEYWORD_CONFIG.company_keywords, text),
             tech_keywords |-> AnyKeyword(KEYWORD_CONFIG.tech_keywords, text)]]

(***************************************************************************)
(* Values.  A score handed back by a classifier is a Python value: a       *)
(* number, or, out of a JSON response, anything JSON can hold.             *)
(***************************************************************************)
PyNum(n) == [t |-> "num", n |-> n]
PyStr == [t |-> "str", n |-> 0]
PyNone == [t |-> "null", n |-> 0]

\* A reason is a Python str, kept as the sequence of the fragments it was
\* concatenated from.
FALLBACK_MARKER == " (AI not available - using keywords)"

NoId == "none"

(***************************************************************************)
(* classifier.py                                                           *)
(***************************************************************************)
Providers == {"gpt", "claude", "llama"}

\* TweetClassifier.__init__ / _init_ai_clients: the client of the selected
\* provider exists when its SDK imported and its API key is in the environment;
\* has_key stands for both.  A client is "set" (TRUE) or None (FALSE).
TweetClassifier(provider, has_key) ==
    [ai_provider |-> provider,
     openai_client |-> (provider = "gpt" /\ has_key),
     anthropic_client |-> (provider = "claude" /\ has_key)]

is_ai_available(c) ==
    IF c.ai_provider = "gpt" THEN c.openai_client
    ELSE IF c.ai_provider = "claude" THEN c.anthropic_client
    ELSE FALSE

\* The outcome of one request to the AI backend: the call raises (transport
\* failure, timeout, HTTP error), or it returns a message whose content is
\* not JSON ("notjson"), JSON that is not an object ("list"), or a JSON
\* object with or without the keys "score" and "reason".
Response(kind, t, has_score, score, has_reason, reason) ==
    [kind |-> kind, t |-> t, has_score |-> has_score, score |-> score,
     has_reason |-> has_reason, reason |-> reason]

RaisingResponse == Response("raise", "none", FALSE, PyNone, FALSE, "")
NotJsonResponse == Response("content", "notjson", FALSE, PyNone, FALSE, "")
ListResponse == Response("content", "list", FALSE, PyNone, FALSE, "")
EmptyObjectResponse == Response("content", "obj", FALSE, PyNone, FALSE, "")
ScoreResponse(score) == Response("content", "obj", TRUE, score, TRUE, "model says so")

\* What a piece of Python code ends with: a raised exception or a returned
\* (score, reason).
Raised(exc) == [raised |-> TRUE, exc |-> exc, score |-> PyNone, reason |-> <<>>]
Returned(score, reason) == [raised |-> FALSE, exc |-> "", score |-> score, reason |-> reason]

\* The try body of classify_with_gpt (lines 71-80) and classify_with_claude
\* (lines 110-118): the request, json.loads of the content, result.get twice.
RequestAndParse(name, response) ==
    IF response.kind = "raise" THEN Raised("APIConnectionError")
    ELSE IF response.t = "notjson" THEN Raised("JSONDecodeError")
    ELSE IF response.t # "obj" THEN Raised("AttributeError")
    ELSE Returned(IF response.has_score THEN response.score ELSE PyNum(5),
                  IF response.has_reason THEN <<response.reason>>
                  ELSE <<name \o " classification">>)

\* A variant whose except clause catches json.JSONDecodeError only: every
\* other exception of the request leaves the method.
classify_with_narrow_except(client, name, response) ==
    IF ~client THEN Returned(PyNum(5), <<name \o " client not available">>)
    ELSE LET body == RequestAndParse(name, response)
         IN  IF body.raised /\ body.exc = "JSONDecodeError"
                 THEN Returned(PyNum(5), <<name \o " error: ", body.exc>>)
             ELSE body

\* classify_with_gpt and classify_with_claude around it: the client check
\* before the try, and `except Exception`, which returns (5, "<name> error: ...").
classify_with(client, name, response) ==
    IF ~client THEN Returned(PyNum(5), <<name \o " client not available">>)
    ELSE LET body == RequestAndParse(name, response)
         IN  IF body.raised THEN Returned(PyNum(5), <<name \o " error: ", body.exc>>)
             ELSE body

classify_with_gpt(c, response) == classify_with(c.openai_client, "GPT", response)

classify_with_claude(c, response) == classify_with(c.anthropic_client, "Claude", response)

classify_tweet(c, response) ==
    IF c.ai_provider = "gpt" THEN classify_with_gpt(c, response)
    ELSE IF c.ai_provider = "claude" THEN classify_with_claude(c, response)
    ELSE Returned(PyNum(5), <<"Unknown AI provider">>)

\* A variant of the cascade that tests the retweet flag before the company
\* and tech keywords.
keyword_classification_retweet_first(tweet_data) ==
    LET hits == KeywordHits[tweet_data.text]
    IN  IF tweet_data.is_pinned
            THEN Returned(PyNum(9), <<"Pinned tweet">>)
        ELSE IF hits.high_priority
            THEN Returned(PyNum(8), <<"High priority keyword">>)
        ELSE IF tweet_data.is_retweet
            THEN Returned(PyNum(4), <<"Retweet">>)
        ELSE IF hits.company_keywords
            THEN Returned(PyNum(7), <<"Company keyword">>)
        ELSE IF hits.tech_keywords
            THEN Returned(PyNum(6), <<"Tech keyword">>)
        ELSE Returned(PyNum(5), <<"Default classification">>)

simple_keyword_classification(tweet_data) ==
    LET hits == KeywordHits[tweet_data.text]
    IN  IF tweet_data.is_pinned
            THEN Returned(PyNum(9), <<"Pinned tweet">>)
        ELSE IF hits.high_priority
            THEN Returned(PyNum(8), <<"High priority keyword">>)
        ELSE IF hits.company_keywords
            THEN Returned(PyNum(IF ~tweet_data.is_retweet THEN 7 ELSE 5),
                          <<"Company keyword">>)
        ELSE IF hits.tech_keywords
            THEN Returned(PyNum(IF ~tweet_data.is_retweet THEN 6 ELSE 4),
                          <<"Tech keyword">>)
        ELSE IF tweet_data.is_retweet
            THEN Returned(PyNum(4), <<"Retweet">>)
        ELSE Returned(PyNum(5), <<"Default classification">>)

(***************************************************************************)
(* The environment: handles, timelines, configurations, the AI backend.    *)
(***************************************************************************)
Handles == {"a", "b", "c"}

\* The digit strings that occur in tweet links.
TweetIds == {"101", "102", "103"}

\* A timeline item as the page gives it: the path segments of the href of
\* its tweet-link (<<>>: no tweet-link or no href), the pinned and retweet
\* markers and the text of its tweet-content.
Item(link, is_pinned, is_retweet, text) ==
    [link |-> link, is_pinned |-> is_pinned, is_retweet |-> is_retweet, text |-> text]

\* The snapshots a fetch of each handle's timeline can return; "a" has an
\* older and a newer one.  Handle "b" carries a tweet with the id of a retweet
\* on "a" and an item whose link has no /status/<digits>; "c" carries an item
\* without any link.
Timelines ==
    [a |-> {<<Item(<<"a", "status", "101">>, TRUE, FALSE, "gm"),
              Item(<<"x", "status", "102">>, FALSE, TRUE, "lol")>>,
            <<Item(<<"x", "status", "102">>, FALSE, TRUE, "lol")>>},
     b |-> {<<Item(<<"b", "status", "102">>, FALSE, FALSE, "said"),
              Item(<<"b", "photo", "7">>, FALSE, FALSE, "Launch AI")>>},
     c |-> {<<Item(<<"c", "status", "103">>, FALSE, FALSE, "Tesla"),
              Item(<<>>, TRUE, FALSE, "IPO")>>}]

\* handles_config values a scraper is constructed with ("c" is configured in
\* neither: its threshold is the default).
HandleConfigs ==
    {[a |-> [min_score |-> 7, context |-> "a content"],
      b |-> [min_score |-> 5, context |-> "b content"]],
     [a |-> [min_score |-> 4, context |-> "a content"],
      b |-> [min_score |-> 8, context |-> "b content"]]}

\* list(handles_config.keys()): the keys in insertion order.
ConfiguredHandles(cfg) == <<"a", "b">>

\* The handle lists extract_tweets_from_multiple_handles is called with.
HandleLists == {<<"c", "a", "b">>, <<"c">>}

\* Constructor arguments (ai_classification, ai_provider) and whether the
\* provider's client can be built.
Setups ==
    {[ai_classification |-> FALSE, ai_provider |-> "gpt", has_key |-> FALSE],
     [ai_classification |-> TRUE, ai_provider |-> "gpt", has_key |-> FALSE],
     [ai_classification |-> TRUE, ai_provider |-> "gpt", has_key |-> TRUE],
     [ai_classification |-> TRUE, ai_provider |-> "claude", has_key |-> TRUE]}

\* The backend's answer within its contract, and the anomalous outcomes of a
\* request made by the pipeline: the request raises, the content is not
\* JSON, the score is out of range, the score is not a number.
NormalResponses == {ScoreResponse(PyNum(8))}

FaultyResponses ==
    {RaisingResponse, NotJsonResponse, ScoreResponse(PyNum(11)), ScoreResponse(PyStr)}

\* Every outcome, for direct calls of classify_tweet.
AllResponses ==
    NormalResponses \cup FaultyResponses \cup
    {ListResponse, EmptyObjectResponse, ScoreResponse(PyNum(0)), ScoreResponse(PyNum(3)),
     ScoreResponse(PyNone)}

(***************************************************************************)
(* State.                                                                  *)
(***************************************************************************)
VARIABLES
    \* the scraper process: TwitterScraper's fields
    ai_classification, ai_provider, classifier, handles_config, seen_tweet_ids,
    \* seen_tweets.json on disk
    seen_file,
    \* extract_tweets_from_multiple_handles: its argument, loop position, locals
    handles, h, all_results, combined_tweets, total_stats,
    \* extract_tweets_from_handle: its argument, loop position, locals, return value
    handle, timeline_items, i, tweets, new_tweets, skipped_tweets, filtered_out,
    result,
    \* where the process is
    pc,
    \* one direct call of a classifier function: arguments and returned value
    call, ret,
    \* history: processes constructed, environment faults so far, whether a
    \* process crashed, classifier invocations per tweet id, the seen set at the
    \* entry of the current handle pipeline, why it failed, the last pipeline
    \* whose save wrote the file, the handle pipelines the aggregator has run
    runs, faults, crashed, classify_count, seen_at_entry, failure, persisted_run,
    attempted,
    \* history: the seen set the current process loaded at construction, and
    \* whether a classification of the pipeline has sent a backend request
    loaded_at_start, backend_called

cfgVars == <<ai_classification, ai_provider, classifier, handles_config>>
aggVars == <<handles, h, all_results, combined_tweets, total_stats>>
pipeVars ==
    <<handle, timeline_items, i, tweets, new_tweets, skipped_tweets, filtered_out, result>>
unitVars == <<call, ret>>
histVars ==
    <<classify_count, seen_at_entry, failure, persisted_run, attempted, loaded_at_start,
      backend_called>>
vars ==
    <<cfgVars, seen_tweet_ids, seen_file, aggVars, pipeVars, pc, unitVars, runs,
      faults, crashed, histVars>>

\* Python's None, for result and ret.
None == [none |-> TRUE]

(***************************************************************************)
(* tweet_scraper.py: the seen-tweet store.                                 *)
(***************************************************************************)
\* seen_tweets.json: missing, a JSON object with the ids last dumped, or a
\* file that was opened for writing (truncated) and not completely written.
MissingFile == [kind |-> "missing", ids |-> {}]
JsonFile(ids) == [kind |-> "json", ids |-> ids]
PartialFile == [kind |-> "partial", ids |-> {}]

\* Files the program does not write itself: valid JSON that is a list, a JSON
\* object whose seen_tweet_ids is not iterable (a number, null), a file that
\* cannot be opened for reading.
ListFile == [kind |-> "list", ids |-> {}]
BadIdsFile == [kind |-> "badids", ids |-> {}]
UnreadableFile == [kind |-> "unreadable", ids |-> {}]

SeenFiles ==
    {MissingFile, JsonFile({}), JsonFile({"101", "102"}), PartialFile, ListFile,
     BadIdsFile, UnreadableFile}

LoadRaised(exc) == [raised |-> TRUE, exc |-> exc, ids |-> {}]
Loaded(ids) == [raised |-> FALSE, exc |-> "", ids |-> ids]

\* Lines 42-45, the body of the try: open, json.load, data.get, set(...).
ReadAndParse(file) ==
    IF file.kind = "unreadable" THEN LoadRaised("PermissionError")
    ELSE IF file.kind = "partial" THEN LoadRaised("JSONDecodeError")
    ELSE IF file.kind = "list" THEN LoadRaised("AttributeError")
    ELSE IF file.kind = "badids" THEN LoadRaised("TypeError")
    ELSE Loaded(file.ids)

\* Lines 39-49: os.path.exists, the try and its except clause, which catches
\* json.JSONDecodeError and KeyError only.
load_seen_tweets(file) ==
    IF file.kind = "missing" THEN Loaded({})
    ELSE LET body == ReadAndParse(file)
         IN  IF body.raised /\ body.exc \in {"JSONDecodeError", "KeyError"}
                 THEN Loaded({})
             ELSE body

\* A variant that takes every id for new.
is_new_tweet_always(tweet_id) == TRUE

is_new_tweet(tweet_id) == tweet_id \notin seen_tweet_ids

\* A variant that assigns the set instead of adding to it.
mark_tweet_as_seen_replaces(tweet_id) == {tweet_id}

\* A variant that does not record the id.
mark_tweet_as_seen_forgets(tweet_id) == seen_tweet_ids

mark_tweet_as_seen(tweet_id) == seen_tweet_ids \cup {tweet_id}

(***************************************************************************)
(* tweet_scraper.py: classification and the per-tweet fields.              *)
(***************************************************************************)
\* re.search(r'/status/(\d+)', href): the digits after the first /status/
\* that digits follow, NoId when there is none (or no link at all).
IsDigits(seg) == seg \in TweetIds \cup {"7"}

StatusAt(link) == {k \in 1..(Len(link) - 1) : link[k] = "status" /\ IsDigits(link[k + 1])}

ExtractId(link) ==
    IF StatusAt(link) = {} THEN NoId
    ELSE link[(CHOOSE k \in StatusAt(link) : \A m \in StatusAt(link) : k <= m) + 1]

\* handles_config.get(handle, {}).get("min_score", 6)
MinScore(hd) ==
    IF hd \in DOMAIN handles_config THEN handles_config[hd].min_score ELSE 6

\* Whether a classification of the pipeline sends a request to the backend:
\* the AI route of lines 167-168 and, in classify_tweet, a known provider
\* whose client exists (classifier.py lines 49-50, 88-89, 126-131).
RequestsBackend ==
    /\ ai_classification /\ is_ai_available(classifier)
    /\ \/ classifier.ai_provider = "gpt" /\ classifier.openai_client
       \/ classifier.ai_provider = "claude" /\ classifier.anthropic_client

\* A variant of lines 162-178 that leaves the keyword reason as it is when
\* the AI client is unavailable.
classify_tweet_importance_unmarked(tweet_data, hd, response) ==
    LET r == IF ai_classification /\ is_ai_available(classifier)
                THEN classify_tweet(classifier, response)
             ELSE simple_keyword_classification(tweet_data)
    IN  IF r.raised \/ r.score.t # "num"
            THEN [raised |-> TRUE, is_important |-> FALSE, score |-> 0, reason |-> r.reason]
        ELSE [raised |-> FALSE, is_important |-> (r.score.n >= MinScore(hd)),
              score |-> r.score.n, reason |-> r.reason]

\* A variant of lines 162-178 that takes the AI route whenever AI
\* classification is requested, without asking is_ai_available.
classify_tweet_importance_unchecked(tweet_data, hd, response) ==
    LET r == IF ai_classification
                THEN classify_tweet(classifier, response)
             ELSE simple_keyword_classification(tweet_data)
    IN  IF r.raised \/ r.score.t # "num"
            THEN [raised |-> TRUE, is_important |-> FALSE, score |-> 0, reason |-> r.reason]
        ELSE [raised |-> FALSE, is_important |-> (r.score.n >= MinScore(hd)),
              score |-> r.score.n, reason |-> r.reason]

\* A variant of lines 162-178 that compares with score > min_score.
classify_tweet_importance_strict(tweet_data, hd, response) ==
    LET r == IF ai_classification /\ is_ai_available(classifier)
                THEN classify_tweet(classifier, response)
             ELSE LET k == simple_keyword_classification(tweet_data)
                  IN  IF ai_classification /\ ~is_ai_available(classifier)
                          THEN [k EXCEPT !.reason = @ \o <<FALLBACK_MARKER>>]
                      ELSE k
    IN  IF r.raised \/ r.score.t # "num"
            THEN [raised |-> TRUE, is_important |-> FALSE, score |-> 0, reason |-> r.reason]
        ELSE [raised |-> FALSE, is_important |-> (r.score.n > MinScore(hd)),
              score |-> r.score.n, reason |-> r.reason]


\* A variant of lines 162-178 that appends the marker to every reason of the
\* keyword cascade, AI classification requested or not.
classify_tweet_importance_always_marked(tweet_data, hd, response) ==
    LET r == IF ai_classification /\ is_ai_available(classifier)
                THEN classify_tweet(classifier, response)
             ELSE LET k == simple_keyword_classification(tweet_data)
                  IN  [k EXCEPT !.reason = @ \o <<FALLBACK_MARKER>>]
    IN  IF r.raised \/ r.score.t # "num"
            THEN [raised |-> TRUE, is_important |-> FALSE, score |-> 0, reason |-> r.reason]
        ELSE [raised |-> FALSE, is_important |-> (r.score.n >= MinScore(hd)),
              score |-> r.score.n, reason |-> r.reason]

\* Lines 162-178.  An exception of the classifier propagates; score >=
\* min_score raises a TypeError when the score is not a number.
classify_tweet_importance(tweet_data, hd, response) ==
    LET r == IF ai_classification /\ is_ai_available(classifier)
                THEN classify_tweet(classifier, response)
             ELSE LET k == simple_keyword_classification(tweet_data)
                  IN  IF ai_classification /\ ~is_ai_available(classifier)
                          THEN [k EXCEPT !.reason = @ \o <<FALLBACK_MARKER>>]
                      ELSE k
    IN  IF r.raised \/ r.score.t # "num"
            THEN [raised |-> TRUE, is_important |-> FALSE, score |-> 0, reason |-> r.reason]
        ELSE [raised |-> FALSE, is_important |-> (r.score.n >= MinScore(hd)),
              score |-> r.score.n, reason |-> r.reason]

\* tweet_data as the loop body leaves it when nothing raised.
TweetData(item, hd, c) ==
    [tweet_id |-> ExtractId(item.link), is_retweet |-> item.is_retweet,
     is_pinned |-> item.is_pinned, text |-> item.text, handle |-> hd,
     importance_score |-> c.score, importance_reason |-> c.reason,
     ai_provider |-> IF ai_classification THEN ai_provider ELSE "keyword"]

(***************************************************************************)
(* list.sort(key=..., reverse=True).  CPython reverses the list, applies   *)
(* its stable ascending sort, and reverses the result.                     *)
(***************************************************************************)
Reverse(s) == [k \in 1..Len(s) |-> s[Len(s) + 1 - k]]

\* x put behind every element whose key is <= its own.
InsertByKey(s, x) ==
    LET n == Cardinality({k \in 1..Len(s) : s[k].importance_score <= x.importance_score})
    IN  SubSeq(s, 1, n) \o <<x>> \o SubSeq(s, n + 1, Len(s))

RECURSIVE StableSortAscending(_)
StableSortAscending(s) ==
    IF s = <<>> THEN <<>>
    ELSE InsertByKey(StableSortAscending(SubSeq(s, 1, Len(s) - 1)), s[Len(s)])

\* A variant that sorts ascending and reverses the result, which reverses the
\* order of equal scores.
SortAscendingThenReverse(s) == Reverse(StableSortAscending(s))

SortByScoreDescending(s) == Reverse(StableSortAscending(Reverse(s)))

(***************************************************************************)
(* Initial state: the first scraper process has been constructed.          *)
(***************************************************************************)
NoCall ==
    [fn |-> "none", tweet_data |-> Item(<<>>, FALSE, FALSE, ""),
     classifier |-> TweetClassifier("gpt", FALSE), response |-> EmptyObjectResponse]

NoStats ==
    [total_handles |-> 0, successful_handles |-> 0, total_important_tweets |-> 0,
     total_filtered_tweets |-> 0]

NoRun == [handle |-> "", page |-> <<>>, ids |-> {}]

\* A process before any call: the locals of both functions are unset.
Idle ==
    /\ handles = <<>> /\ h = 0 /\ all_results = <<>> /\ combined_tweets = <<>>
    /\ total_stats = NoStats
    /\ handle = "" /\ timeline_items = <<>> /\ i = 0 /\ tweets = <<>>
    /\ new_tweets = <<>> /\ skipped_tweets = 0 /\ filtered_out = 0 /\ result = None
    /\ seen_at_entry = {} /\ failure = "none" /\ attempted = <<>>

\* The same for the process that comes next.
IdleNext ==
    /\ handles' = <<>> /\ h' = 0 /\ all_results' = <<>> /\ combined_tweets' = <<>>
    /\ total_stats' = NoStats
    /\ handle' = "" /\ timeline_items' = <<>> /\ i' = 0 /\ tweets' = <<>>
    /\ new_tweets' = <<>> /\ skipped_tweets' = 0 /\ filtered_out' = 0 /\ result' = None
    /\ seen_at_entry' = {} /\ failure' = "none" /\ attempted' = <<>>

Init ==
    /\ \E setup \in Setups, cfg \in HandleConfigs :
        /\ ai_classification = setup.ai_classification
        /\ ai_provider = setup.ai_provider
        /\ classifier = TweetClassifier(setup.ai_provider, setup.has_key)
        /\ handles_config = cfg
    /\ seen_file = MissingFile
    /\ seen_tweet_ids = load_seen_tweets(MissingFile).ids
    /\ Idle
    /\ pc = "ready"
    /\ call = NoCall /\ ret = None
    /\ runs = 1 /\ faults = 0 /\ crashed = FALSE
    /\ classify_count = [id \in TweetIds |-> 0]
    /\ persisted_run = NoRun
    /\ loaded_at_start = {} /\ backend_called = FALSE

(***************************************************************************)
(* Actions.                                                                *)
(***************************************************************************)
\* TwitterScraper.__init__ in a new process, after the previous one returned
\* or crashed: the classifier is built as before (same arguments, same
\* environment), handles_config is given anew and the seen set is loaded
\* from the file.
Construct ==
    /\ pc \in {"returned", "exited"}
    /\ runs < MaxRuns
    /\ \E cfg \in HandleConfigs : handles_config' = cfg
    /\ ~load_seen_tweets(seen_file).raised
    /\ seen_tweet_ids' = load_seen_tweets(seen_file).ids
    /\ loaded_at_start' = load_seen_tweets(seen_file).ids
    /\ IdleNext
    /\ pc' = "ready"
    /\ runs' = runs + 1
    /\ UNCHANGED <<ai_classification, ai_provider, classifier, seen_file, unitVars,
                   faults, crashed, classify_count, persisted_run,
                   backend_called>>

\* extract_tweets_from_multiple_handles(handles): lines 311-323.
StartMultiple ==
    /\ pc = "ready"
    /\ \E hs \in HandleLists \cup {ConfiguredHandles(handles_config)} :
        /\ handles' = hs
        /\ total_stats' = [NoStats EXCEPT !.total_handles = Len(hs)]
        /\ pc' = IF Len(hs) > 0 THEN "fetch" ELSE "sort"
    /\ h' = 1
    /\ all_results' = <<>>
    /\ combined_tweets' = <<>>
    /\ UNCHANGED <<cfgVars, seen_tweet_ids, seen_file, pipeVars, unitVars, runs,
                   faults, crashed, histVars>>

\* A variant in which a failed request is taken for an empty page and the
\* pipeline goes on to its save.
FetchFailsAsEmptyPage ==
    /\ pc = "fetch"
    /\ faults < MaxFaults
    /\ handle' = handles[h]
    /\ result' = None
    /\ timeline_items' = <<>>
    /\ failure' = "fetch"
    /\ seen_at_entry' = seen_tweet_ids
    /\ pc' = "save"
    /\ faults' = faults + 1
    /\ UNCHANGED <<cfgVars, seen_tweet_ids, seen_file, aggVars, i,
                   tweets, new_tweets, skipped_tweets, filtered_out, unitVars, runs,
                   crashed, classify_count, persisted_run, attempted,
                   loaded_at_start, backend_called>>

\* extract_tweets_from_handle(handles[h]) up to the loop: the GET and the
\* parse.  Either the request raises (except clause: return None) or the page
\* is one of the handle's snapshots.
FetchFails ==
    /\ pc = "fetch"
    /\ faults < MaxFaults
    /\ handle' = handles[h]
    /\ result' = None
    /\ failure' = "fetch"
    /\ seen_at_entry' = seen_tweet_ids
    /\ pc' = "done"
    /\ faults' = faults + 1
    /\ UNCHANGED <<cfgVars, seen_tweet_ids, seen_file, aggVars, timeline_items, i,
                   tweets, new_tweets, skipped_tweets, filtered_out, unitVars, runs,
                   crashed, classify_count, persisted_run, attempted,
                   loaded_at_start, backend_called>>


\* A variant of the pipeline that starts every handle from the seen set as it
\* was loaded, forgetting the ids marked under the handles before it.
FetchWithOwnSeenSet ==
    /\ pc = "fetch"
    /\ handle' = handles[h]
    /\ \E page \in Timelines[handles[h]] :
        /\ timeline_items' = page
        /\ pc' = IF Len(page) > 0 THEN "items" ELSE "save"
    /\ i' = 1
    /\ tweets' = <<>>
    /\ new_tweets' = <<>>
    /\ skipped_tweets' = 0
    /\ filtered_out' = 0
    /\ result' = None
    /\ failure' = "none"
    /\ seen_tweet_ids' = loaded_at_start
    /\ seen_at_entry' = loaded_at_start
    /\ UNCHANGED <<cfgVars, seen_file, aggVars, unitVars, runs, faults,
                   crashed, classify_count, persisted_run, attempted,
                   loaded_at_start, backend_called>>

Fetch ==
    /\ pc = "fetch"
    /\ handle' = handles[h]
    /\ \E page \in Timelines[handles[h]] :
        /\ timeline_items' = page
        /\ pc' = IF Len(page) > 0 THEN "items" ELSE "save"
    /\ i' = 1
    /\ tweets' = <<>>
    /\ new_tweets' = <<>>
    /\ skipped_tweets' = 0
    /\ filtered_out' = 0
    /\ result' = None
    /\ failure' = "none"
    /\ seen_at_entry' = seen_tweet_ids
    /\ UNCHANGED <<cfgVars, seen_tweet_ids, seen_file, aggVars, unitVars, runs, faults,
                   crashed, classify_count, persisted_run, attempted,
                   loaded_at_start, backend_called>>


\* A variant of lines 209-211 that goes on to the next item without counting
\* the skipped one.
SkipSeenItemUncounted ==
    /\ pc = "items"
    /\ LET tweet_id == ExtractId(timeline_items[i].link)
       IN  tweet_id # NoId /\ ~is_new_tweet(tweet_id)
    /\ i' = i + 1
    /\ pc' = IF i < Len(timeline_items) THEN "items" ELSE "save"
    /\ UNCHANGED <<cfgVars, seen_tweet_ids, seen_file, aggVars, handle, timeline_items,
                   tweets, new_tweets, skipped_tweets, filtered_out, result, unitVars,
                   runs, faults, crashed, histVars>>

\* One iteration of `for item in timeline_items` whose tweet id was seen:
\* lines 209-211.
SkipSeenItem ==
    /\ pc = "items"
    /\ LET tweet_id == ExtractId(timeline_items[i].link)
       IN  tweet_id # NoId /\ ~is_new_tweet(tweet_id)
    /\ skipped_tweets' = skipped_tweets + 1
    /\ i' = i + 1
    /\ pc' = IF i < Len(timeline_items) THEN "items" ELSE "save"
    /\ UNCHANGED <<cfgVars, seen_tweet_ids, seen_file, aggVars, handle, timeline_items,
                   tweets, new_tweets, filtered_out, result, unitVars, runs, faults,
                   crashed, histVars>>

\* The backend answers a classification of the current process can receive:
\* none is requested unless AI classification is on and available.
Answers ==
    IF ai_classification /\ is_ai_available(classifier)
        THEN NormalResponses \cup (IF faults < MaxFaults THEN FaultyResponses ELSE {})
    ELSE {ScoreResponse(PyNum(8))}

\* A variant of the iteration that marks a tweet as seen after the
\* classification, and only when the tweet is kept.
ProcessItemMarksKept ==
    /\ pc = "items"
    /\ LET item == timeline_items[i]
           tweet_id == ExtractId(item.link)
       IN  /\ tweet_id = NoId \/ is_new_tweet(tweet_id)
           /\ classify_count' = IF tweet_id # NoId
                                    THEN [classify_count EXCEPT ![tweet_id] = @ + 1]
                                ELSE classify_count
           /\ \E response \in Answers :
               LET c == classify_tweet_importance(item, handle, response)
                   tweet_data == TweetData(item, handle, c)
               IN  /\ faults' = IF response \in FaultyResponses THEN faults + 1 ELSE faults
                   /\ backend_called' = (backend_called \/ RequestsBackend)
                   /\ seen_tweet_ids' = IF tweet_id # NoId /\ ~c.raised /\ c.is_important
                                            THEN mark_tweet_as_seen(tweet_id)
                                        ELSE seen_tweet_ids
                   /\ IF c.raised
                        THEN /\ result' = None
                             /\ failure' = "tweet"
                             /\ pc' = "done"
                             /\ UNCHANGED <<i, tweets, new_tweets, filtered_out>>
                        ELSE /\ tweets' = Append(tweets, tweet_data)
                             /\ new_tweets' = IF c.is_important
                                                 THEN Append(new_tweets, tweet_data)
                                              ELSE new_tweets
                             /\ filtered_out' = IF c.is_important THEN filtered_out
                                                ELSE filtered_out + 1
                             /\ i' = i + 1
                             /\ pc' = IF i < Len(timeline_items) THEN "items" ELSE "save"
                             /\ UNCHANGED <<result, failure>>
    /\ UNCHANGED <<cfgVars, seen_file, aggVars, handle, timeline_items, skipped_tweets,
                   unitVars, runs, crashed, seen_at_entry, persisted_run, attempted,
                   loaded_at_start>>

\* One iteration for a new tweet or a tweet without id: lines 200-271.  A
\* TypeError of the threshold comparison leaves the loop through the except
\* clause of lines 305-307.
ProcessItem ==
    /\ pc = "items"
    /\ LET item == timeline_items[i]
           tweet_id == ExtractId(item.link)
       IN  /\ tweet_id = NoId \/ is_new_tweet(tweet_id)
           /\ seen_tweet_ids' = IF tweet_id # NoId THEN mark_tweet_as_seen(tweet_id)
                                ELSE seen_tweet_ids
           /\ classify_count' = IF tweet_id # NoId
                                    THEN [classify_count EXCEPT ![tweet_id] = @ + 1]
                                ELSE classify_count
           /\ \E response \in Answers :
               LET c == classify_tweet_importance(item, handle, response)
                   tweet_data == TweetData(item, handle, c)
               IN  /\ faults' = IF response \in FaultyResponses THEN faults + 1 ELSE faults
                   /\ backend_called' = (backend_called \/ RequestsBackend)
                   /\ IF c.raised
                        THEN /\ result' = None
                             /\ failure' = "tweet"
                             /\ pc' = "done"
                             /\ UNCHANGED <<i, tweets, new_tweets, filtered_out>>
                        ELSE /\ tweets' = Append(tweets, tweet_data)
                             /\ new_tweets' = IF c.is_important
                                                 THEN Append(new_tweets, tweet_data)
                                              ELSE new_tweets
                             /\ filtered_out' = IF c.is_important THEN filtered_out
                                                ELSE filtered_out + 1
                             /\ i' = i + 1
                             /\ pc' = IF i < Len(timeline_items) THEN "items" ELSE "save"
                             /\ UNCHANGED <<result, failure>>
    /\ UNCHANGED <<cfgVars, seen_file, aggVars, handle, timeline_items, skipped_tweets,
                   unitVars, runs, crashed, seen_at_entry, persisted_run, attempted,
                   loaded_at_start>>

\* A variant of the dict of lines 288-300 whose kept list is sorted by score.
HandleResultSortedByScore ==
    [handle |-> handle, tweets_count |-> Len(tweets),
     new_tweets_count |-> Len(new_tweets), skipped_tweets_count |-> skipped_tweets,
     tweets |-> SortByScoreDescending(new_tweets), filtered_out_count |-> filtered_out,
     ai_classification_enabled |-> ai_classification,
     ai_provider |-> IF ai_classification THEN ai_provider ELSE "keyword"]

\* The dict of lines 288-300.
HandleResult ==
    [handle |-> handle, tweets_count |-> Len(tweets),
     new_tweets_count |-> Len(new_tweets), skipped_tweets_count |-> skipped_tweets,
     tweets |-> new_tweets, filtered_out_count |-> filtered_out,
     ai_classification_enabled |-> ai_classification,
     ai_provider |-> IF ai_classification THEN ai_provider ELSE "keyword"]

\* save_seen_tweets, line 58: open(..., 'w') truncates the file; when it
\* raises, the except clause prints and the pipeline returns its result.
SaveOpen ==
    /\ pc = "save"
    /\ seen_file' = PartialFile
    /\ pc' = "dump"
    /\ UNCHANGED <<cfgVars, seen_tweet_ids, aggVars, pipeVars, unitVars, runs, faults,
                   crashed, histVars>>

SaveOpenFails ==
    /\ pc = "save"
    /\ faults < MaxFaults
    /\ faults' = faults + 1
    /\ result' = HandleResult
    /\ pc' = "done"
    /\ UNCHANGED <<cfgVars, seen_tweet_ids, seen_file, aggVars, handle, timeline_items,
                   i, tweets, new_tweets, skipped_tweets, filtered_out, unitVars, runs,
                   crashed, histVars>>

\* save_seen_tweets, line 59: json.dump writes the whole set; when it raises
\* part-way the file stays incomplete.  Then lines 276-300.
SaveDump ==
    /\ pc = "dump"
    /\ seen_file' = JsonFile(seen_tweet_ids)
    /\ persisted_run' = [handle |-> handle, page |-> timeline_items, ids |-> seen_tweet_ids]
    /\ result' = HandleResult
    /\ pc' = "done"
    /\ UNCHANGED <<cfgVars, seen_tweet_ids, aggVars, handle, timeline_items, i, tweets,
                   new_tweets, skipped_tweets, filtered_out, unitVars, runs, faults,
                   crashed, classify_count, seen_at_entry, failure, attempted,
                   loaded_at_start, backend_called>>


\* A variant in which an exception of json.dump leaves save_seen_tweets and
\* is caught by the handler of the pipeline, which returns None.
SaveDumpFailsIsFatal ==
    /\ pc = "dump"
    /\ faults < MaxFaults
    /\ faults' = faults + 1
    /\ result' = None
    /\ pc' = "done"
    /\ UNCHANGED <<cfgVars, seen_tweet_ids, seen_file, aggVars, handle, timeline_items,
                   i, tweets, new_tweets, skipped_tweets, filtered_out, unitVars, runs,
                   crashed, histVars>>

SaveDumpFails ==
    /\ pc = "dump"
    /\ faults < MaxFaults
    /\ faults' = faults + 1
    /\ result' = HandleResult
    /\ pc' = "done"
    /\ UNCHANGED <<cfgVars, seen_tweet_ids, seen_file, aggVars, handle, timeline_items,
                   i, tweets, new_tweets, skipped_tweets, filtered_out, unitVars, runs,
                   crashed, histVars>>


\* A variant of the accumulation that adds the number of classified tweets of
\* the handle to the important total instead of the number of kept ones.
AccumulateResultCountsClassified ==
    /\ pc = "done"
    /\ result # None
    /\ all_results' = Append(all_results, result)
    /\ combined_tweets' = combined_tweets \o result.tweets
    /\ total_stats' =
        [total_stats EXCEPT
            !.successful_handles = @ + 1,
            !.total_important_tweets = @ + result.tweets_count,
            !.total_filtered_tweets = @ + result.filtered_out_count]
    /\ attempted' = Append(attempted, [handle |-> handle, ok |-> TRUE])
    /\ h' = h + 1
    /\ pc' = IF h < Len(handles) THEN "fetch" ELSE "sort"
    /\ UNCHANGED <<cfgVars, seen_tweet_ids, seen_file, handles, pipeVars, unitVars, runs,
                   faults, crashed, classify_count, seen_at_entry, failure,
                   persisted_run,
                   loaded_at_start, backend_called>>


\* A variant of the accumulation that puts the result of the handle in front
\* of the results collected so far.
AccumulateResultInFront ==
    /\ pc = "done"
    /\ result # None
    /\ all_results' = <<result>> \o all_results
    /\ combined_tweets' = combined_tweets \o result.tweets
    /\ total_stats' =
        [total_stats EXCEPT
            !.successful_handles = @ + 1,
            !.total_important_tweets = @ + result.new_tweets_count,
            !.total_filtered_tweets = @ + result.filtered_out_count]
    /\ attempted' = Append(attempted, [handle |-> handle, ok |-> TRUE])
    /\ h' = h + 1
    /\ pc' = IF h < Len(handles) THEN "fetch" ELSE "sort"
    /\ UNCHANGED <<cfgVars, seen_tweet_ids, seen_file, handles, pipeVars, unitVars, runs,
                   faults, crashed, classify_count, seen_at_entry, failure,
                   persisted_run,
                   loaded_at_start, backend_called>>

\* Back in extract_tweets_from_multiple_handles: lines 329-336 and the next
\* iteration of `for handle in handles`.
AccumulateResult ==
    /\ pc = "done"
    /\ result # None
    /\ all_results' = Append(all_results, result)
    /\ combined_tweets' = combined_tweets \o result.tweets
    /\ total_stats' =
        [total_stats EXCEPT
            !.successful_handles = @ + 1,
            !.total_important_tweets = @ + result.new_tweets_count,
            !.total_filtered_tweets = @ + result.filtered_out_count]
    /\ attempted' = Append(attempted, [handle |-> handle, ok |-> TRUE])
    /\ h' = h + 1
    /\ pc' = IF h < Len(handles) THEN "fetch" ELSE "sort"
    /\ UNCHANGED <<cfgVars, seen_tweet_ids, seen_file, handles, pipeVars, unitVars, runs,
                   faults, crashed, classify_count, seen_at_entry, failure,
                   persisted_run,
                   loaded_at_start, backend_called>>

\* A variant of the aggregator's loop that stops at the first handle that
\* returns no result.
AbortOnFailedHandle ==
    /\ pc = "done"
    /\ result = None
    /\ attempted' = Append(attempted, [handle |-> handle, ok |-> FALSE])
    /\ h' = h + 1
    /\ pc' = "sort"
    /\ UNCHANGED <<cfgVars, seen_tweet_ids, seen_file, handles, all_results,
                   combined_tweets, total_stats, pipeVars, unitVars, runs, faults,
                   crashed, classify_count, seen_at_entry, failure, persisted_run,
                   loaded_at_start, backend_called>>

SkipFailedHandle ==
    /\ pc = "done"
    /\ result = None
    /\ attempted' = Append(attempted, [handle |-> handle, ok |-> FALSE])
    /\ h' = h + 1
    /\ pc' = IF h < Len(handles) THEN "fetch" ELSE "sort"
    /\ UNCHANGED <<cfgVars, seen_tweet_ids, seen_file, handles, all_results,
                   combined_tweets, total_stats, pipeVars, unitVars, runs, faults,
                   crashed, classify_count, seen_at_entry, failure, persisted_run,
                   loaded_at_start, backend_called>>

\* Lines 338-347: the sort and the return.
SortAndReturn ==
    /\ pc = "sort"
    /\ combined_tweets' = SortByScoreDescending(combined_tweets)
    /\ pc' = "returned"
    /\ UNCHANGED <<cfgVars, seen_tweet_ids, seen_file, handles, h, all_results,
                   total_stats, pipeVars, unitVars, runs, faults, crashed, histVars>>

\* The process dies in the middle of a call: its memory is lost, the file
\* stays as it is.
Crash ==
    /\ pc \in {"fetch", "items", "save", "dump", "done", "sort"}
    /\ faults < MaxFaults
    /\ faults' = faults + 1
    /\ crashed' = TRUE
    /\ IdleNext
    /\ pc' = "exited"
    /\ UNCHANGED <<cfgVars, seen_tweet_ids, seen_file, unitVars, runs, classify_count,
                   persisted_run,
                   loaded_at_start, backend_called>>

Next ==
    \/ Construct
    \/ StartMultiple
    \/ FetchFails
    \/ Fetch
    \/ SkipSeenItem
    \/ ProcessItem
    \/ SaveOpen
    \/ SaveOpenFails
    \/ SaveDump
    \/ SaveDumpFails
    \/ AccumulateResult
    \/ SkipFailedHandle
    \/ SortAndReturn
    \/ Crash

Spec == Init /\ [][Next]_vars

(***************************************************************************)
(* Direct calls of the classifier's two scoring functions, one per         *)
(* behaviour, over every argument of the model.                            *)
(***************************************************************************)

(***************************************************************************)
(* email_notifier.py.  A credential is modelled by whether it is set (a    *)
(* non-empty string) or not (None or empty), which is all that all([...])  *)
(* looks at.                                                               *)
(***************************************************************************)
\* EmailNotifier.__init__, lines 14-29.
EmailNotifier(email_user, email_password, recipient_email) ==
    [email_user |-> email_user, email_password |-> email_password,
     recipient_email |-> recipient_email,
     is_configured |-> (email_user /\ email_password /\ recipient_email)]

\* What happens inside the try of send_batch_notification: the message is
\* delivered, or building the body, connecting (SMTP(), starttls, login) or
\* send_message raises, or the message is sent and the QUIT at the exit of
\* the with block raises.
SmtpOutcomes == {"delivered", "body_raises", "connect_raises", "send_raises", "quit_raises"}

\* The outcome of a call that returns value, having opened a connection or
\* not and handed a message to the server or not.
NotifyReturned(value, connected, sent) ==
    [raised |-> FALSE, value |-> value, connected |-> connected, sent |-> sent]

\* A variant of lines 60-83 without the test of total_important.
send_batch_notification_any_total(notifier, total_important, outcome) ==
    IF ~notifier.is_configured
        THEN NotifyReturned(FALSE, FALSE, FALSE)
    ELSE CASE outcome = "delivered" -> NotifyReturned(TRUE, TRUE, TRUE)
           [] outcome = "body_raises" -> NotifyReturned(FALSE, FALSE, FALSE)
           [] outcome = "connect_raises" -> NotifyReturned(FALSE, FALSE, FALSE)
           [] outcome = "send_raises" -> NotifyReturned(FALSE, TRUE, FALSE)
           [] outcome = "quit_raises" -> NotifyReturned(FALSE, TRUE, TRUE)

\* send_batch_notification, lines 60-83: the guard of line 61, then a try
\* whose except Exception prints and returns False.
send_batch_notification(notifier, total_important, outcome) ==
    IF ~notifier.is_configured \/ total_important = 0
        THEN NotifyReturned(FALSE, FALSE, FALSE)
    ELSE CASE outcome = "delivered" -> NotifyReturned(TRUE, TRUE, TRUE)
           [] outcome = "body_raises" -> NotifyReturned(FALSE, FALSE, FALSE)
           [] outcome = "connect_raises" -> NotifyReturned(FALSE, FALSE, FALSE)
           [] outcome = "send_raises" -> NotifyReturned(FALSE, TRUE, FALSE)
           [] outcome = "quit_raises" -> NotifyReturned(FALSE, TRUE, TRUE)

KeywordCalls ==
    {[fn |-> "simple_keyword_classification", tweet_data |-> Item(<<>>, p, r, t),
      classifier |-> NoCall.classifier, response |-> NoCall.response] :
        p \in BOOLEAN, r \in BOOLEAN, t \in Texts}

ClassifyCalls ==
    {[fn |-> "classify_tweet", tweet_data |-> NoCall.tweet_data,
      classifier |-> TweetClassifier(p, k), response |-> resp] :
        p \in Providers, k \in BOOLEAN, resp \in AllResponses}

LoadCall ==
    [fn |-> "load_seen_tweets", tweet_data |-> NoCall.tweet_data,
     classifier |-> NoCall.classifier, response |-> NoCall.response]


\* Calls of send_batch_notification with the total of a digest of up to two
\* important tweets.
NotifyCalls ==
    {[fn |-> "send_batch_notification", notifier |-> EmailNotifier(u, p, r),
      total_important |-> n, outcome |-> o] :
        u \in BOOLEAN, p \in BOOLEAN, r \in BOOLEAN, n \in 0..2, o \in SmtpOutcomes}

InitCalls ==
    /\ ai_classification = FALSE
    /\ ai_provider = "gpt"
    /\ classifier = TweetClassifier("gpt", FALSE)
    /\ handles_config \in HandleConfigs
    /\ \/ seen_file = MissingFile
          /\ call \in KeywordCalls \cup ClassifyCalls \cup NotifyCalls
       \/ seen_file \in SeenFiles /\ call = LoadCall
    /\ seen_tweet_ids = load_seen_tweets(MissingFile).ids
    /\ Idle
    /\ pc = "ready"
    /\ ret = None
    /\ runs = 1 /\ faults = 0 /\ crashed = FALSE
    /\ classify_count = [id \in TweetIds |-> 0]
    /\ persisted_run = NoRun
    /\ loaded_at_start = {} /\ backend_called = FALSE

CallSimpleKeywordClassification ==
    /\ call.fn = "simple_keyword_classification"
    /\ ret = None
    /\ ret' = simple_keyword_classification(call.tweet_data)
    /\ UNCHANGED <<cfgVars, seen_tweet_ids, seen_file, aggVars, pipeVars, pc, call, runs,
                   faults, crashed, histVars>>

CallClassifyTweet ==
    /\ call.fn = "classify_tweet"
    /\ ret = None
    /\ ret' = classify_tweet(call.classifier, call.response)
    /\ UNCHANGED <<cfgVars, seen_tweet_ids, seen_file, aggVars, pipeVars, pc, call, runs,
                   faults, crashed, histVars>>

\* self.load_seen_tweets() of TwitterScraper.__init__, line 31, on the file
\* the process finds.
CallLoadSeenTweets ==
    /\ call.fn = "load_seen_tweets"
    /\ ret = None
    /\ ret' = load_seen_tweets(seen_file)
    /\ UNCHANGED <<cfgVars, seen_tweet_ids, seen_file, aggVars, pipeVars, pc, call, runs,
                   faults, crashed, histVars>>


CallSendBatchNotification ==
    /\ call.fn = "send_batch_notification"
    /\ ret = None
    /\ ret' = send_batch_notification(call.notifier, call.total_important, call.outcome)
    /\ UNCHANGED <<cfgVars, seen_tweet_ids, seen_file, aggVars, pipeVars, pc, call, runs,
                   faults, crashed, histVars>>

NextCalls ==
    \/ CallSimpleKeywordClassification
    \/ CallClassifyTweet
    \/ CallLoadSeenTweets
    \/ CallSendBatchNotification

SpecCalls == InitCalls /\ [][NextCalls]_vars

(***************************************************************************)
(* Properties.                                                             *)
(***************************************************************************)
\* The tweets a caller is handed: the kept list being built, the returned
\* results and the combined list.
RECURSIVE Flatten(_)
Flatten(results) ==
    IF results = <<>> THEN <<>>
    ELSE Flatten(SubSeq(results, 1, Len(results) - 1)) \o results[Len(results)].tweets

Range(s) == {s[k] : k \in 1..Len(s)}

Emitted == Range(new_tweets) \cup Range(Flatten(all_results)) \cup Range(combined_tweets)

\* The handle pipeline has run its loop over the page that the last pipeline
\* to write the file ran over, for the same handle, and it started from the
\* seen set that pipeline wrote.
SecondRunOfSnapshot ==
    /\ pc \in {"items", "save", "dump"}
    /\ persisted_run.handle = handle
    /\ persisted_run.page = timeline_items
    /\ seen_at_entry = persisted_run.ids

C2_ScoreRange ==
    \A t \in Emitted : 1 <= t.importance_score /\ t.importance_score <= 10

\* C3: as long as no process crashed, no tweet id is passed to the classifier
\* more than once, over all runs.
C3_ClassifiedAtMostOnce ==
    ~crashed => \A id \in TweetIds : classify_count[id] <= 1

\* C4: when AI classification is requested and the client is unavailable,
\* every classified tweet has the score of the keyword cascade and a reason
\* that contains the fallback marker.
C4_FallbackAnnotation ==
    (ai_classification /\ ~is_ai_available(classifier)) =>
        \A t \in Range(tweets) \cup Emitted :
            /\ FALLBACK_MARKER \in Range(t.importance_reason)
            /\ PyNum(t.importance_score) = simple_keyword_classification(t).score

C4_Witness ==
    /\ ai_classification
    /\ ~is_ai_available(classifier)
    /\ combined_tweets # <<>>
    /\ filtered_out > 0

\* The rules of the keyword cascade, in priority order, for a tweet.
KeywordRules(t) ==
    LET text == lower(Chars[t.text])
    IN  <<[applies |-> t.is_pinned, score |-> 9],
          [applies |-> AnyKeyword(KEYWORD_CONFIG.high_priority, text), score |-> 8],
          [applies |-> AnyKeyword(KEYWORD_CONFIG.company_keywords, text),
           score |-> IF t.is_retweet THEN 5 ELSE 7],
          [applies |-> AnyKeyword(KEYWORD_CONFIG.tech_keywords, text),
           score |-> IF t.is_retweet THEN 4 ELSE 6],
          [applies |-> t.is_retweet, score |-> 4],
          [applies |-> TRUE, score |-> 5]>>

\* C5: simple_keyword_classification returns the score of the first rule that
\* applies, in the order pinned, high priority, company, tech, retweet, default.
C5_KeywordRulePriority ==
    (call.fn = "simple_keyword_classification" /\ ret # None) =>
        LET rules == KeywordRules(call.tweet_data)
            first == CHOOSE k \in 1..Len(rules) :
                        rules[k].applies /\ \A m \in 1..(k - 1) : ~rules[m].applies
        IN  ~ret.raised /\ ret.score = PyNum(rules[first].score)

C5_Witness ==
    /\ call.fn = "simple_keyword_classification"
    /\ ret # None
    /\ ~call.tweet_data.is_pinned
    /\ call.tweet_data.is_retweet
    /\ call.tweet_data.text = "TESLA AI"
    /\ ret.score = PyNum(5)

\* C6: of the tweets classified so far by a handle pipeline, the kept list
\* holds exactly those with score >= the handle's min_score, in order, and
\* filtered_out counts the others.
C6_ThresholdFiltering ==
    pc \in {"items", "save", "dump"} =>
        /\ new_tweets = SelectSeq(tweets, LAMBDA t : t.importance_score >= MinScore(handle))
        /\ filtered_out = Len(tweets) - Len(new_tweets)

C6_Witness ==
    /\ pc = "save"
    /\ filtered_out > 0
    /\ \E k \in 1..Len(new_tweets) : new_tweets[k].importance_score = MinScore(handle)

\* C7: when the aggregator returns, every handle of the list was run in list
\* order whether or not an earlier one failed, successful_handles counts the
\* handles that returned a result, and their kept tweets are all in
\* combined_tweets.
C7_PartialFailureIsolation ==
    pc = "returned" =>
        /\ [k \in 1..Len(attempted) |-> attempted[k].handle] = handles
        /\ total_stats.successful_handles =
              Cardinality({k \in 1..Len(attempted) : attempted[k].ok})
        /\ Len(all_results) = total_stats.successful_handles
        /\ Len(combined_tweets) = Len(Flatten(all_results))
        /\ Range(Flatten(all_results)) \subseteq Range(combined_tweets)

C7_Witness ==
    /\ pc = "returned"
    /\ Len(handles) = 3
    /\ ~attempted[1].ok
    /\ total_stats.successful_handles = 2
    /\ Len(combined_tweets) > 1

\* C8: an error raised while one tweet is processed never makes the handle
\* pipeline return no result.
C8_TweetLevelIsolation ==
    ~(pc = "done" /\ result = None /\ failure = "tweet")

\* C9: classify_tweet never raises, and when the client is missing, the
\* request fails or the content is not a JSON object it returns the score 5
\* (a number, which the threshold comparison accepts) with a reason that
\* names the failure.
C9_ClassifyTweetNeverRaises ==
    (call.fn = "classify_tweet" /\ ret # None) =>
        /\ ~ret.raised
        /\ (\/ ~is_ai_available(call.classifier)
            \/ call.response.kind = "raise"
            \/ call.response.t \in {"notjson", "list"})
           => /\ ret.score = PyNum(5)
              /\ ret.reason # <<>>
              /\ ret.reason[1] \in
                    {"GPT client not available", "Claude client not available",
                     "GPT error: ", "Claude error: ", "Unknown AI provider"}

C9_Witness ==
    /\ call.fn = "classify_tweet"
    /\ ret # None
    /\ call.classifier.anthropic_client
    /\ call.response.t = "list"
    /\ ret.score = PyNum(5)

\* C10: combined_tweets, as returned, is in descending score order, and the
\* tweets of each score are in the order in which the handles' kept lists
\* were combined.
C10_SortStability ==
    pc = "returned" =>
        /\ \A j, k \in 1..Len(combined_tweets) :
              j < k => combined_tweets[j].importance_score >= combined_tweets[k].importance_score
        /\ \A t \in Range(combined_tweets) :
              SelectSeq(combined_tweets, LAMBDA u : u.importance_score = t.importance_score)
                = SelectSeq(Flatten(all_results),
                            LAMBDA u : u.importance_score = t.importance_score)

C10_Witness ==
    /\ pc = "returned"
    /\ \E j, k \in 1..Len(combined_tweets) :
          /\ j < k
          /\ combined_tweets[j].importance_score = combined_tweets[k].importance_score
          /\ combined_tweets[j].handle # combined_tweets[k].handle
    /\ \E j, k \in 1..Len(combined_tweets) :
          combined_tweets[j].importance_score > combined_tweets[k].importance_score

\* C11: at any moment of a handle pipeline after the fetch, the seen set a
\* load would read from the file holds every id the process had in its seen
\* set when the pipeline was entered (those loaded at construction and those
\* marked while the earlier handles of the list were processed).
C11_PerHandleDurability ==
    (pc \in {"items", "save", "dump"} /\ h > 1) =>
        seen_at_entry \subseteq load_seen_tweets(seen_file).ids

\* C12: whenever a scraper has been constructed, the seen set it loaded is a
\* set that a save wrote completely (the last one), never an empty or partial
\* one left by an interrupted save.
C12_AtomicPersist ==
    pc = "ready" => seen_tweet_ids = persisted_run.ids

\* C13: load_seen_tweets returns for every file the process can find, and
\* returns the empty set unless the file holds a JSON object with a list of
\* ids.
C13_LoadNeverFails ==
    (call.fn = "load_seen_tweets" /\ ret # None) =>
        /\ ~ret.raised
        /\ seen_file.kind # "json" => ret.ids = {}

\* C14: within a process no step removes an id from the in-memory seen set,
\* and every set a save writes is the in-memory set, a superset of the set
\* the process loaded at construction.
C14_MonotonicSeenSet ==
    [][/\ runs' = runs => seen_tweet_ids \subseteq seen_tweet_ids'
       /\ (seen_file' # seen_file /\ seen_file'.kind = "json") =>
              /\ seen_file'.ids = seen_tweet_ids
              /\ loaded_at_start \subseteq seen_file'.ids]_vars

C14_Witness ==
    /\ pc = "done"
    /\ loaded_at_start # {}
    /\ seen_file.kind = "json"
    /\ seen_file.ids # loaded_at_start
    /\ seen_tweet_ids = seen_file.ids

\* The items before position n of the page whose id was in the seen set when
\* the loop reached them: seen at the entry of the pipeline, or the id of an
\* earlier item of the page.
SeenWhenReached(n) ==
    {k \in 1..n :
        LET tweet_id == ExtractId(timeline_items[k].link)
        IN  /\ tweet_id # NoId
            /\ \/ tweet_id \in seen_at_entry
               \/ \E m \in 1..(k - 1) : ExtractId(timeline_items[m].link) = tweet_id}

\* C15: of the items the loop has gone through, those whose id was in the
\* seen set when they were reached are counted in skipped_tweets, one each,
\* and are not among the classified tweets (nor, hence, the kept ones): all
\* the others and only they were classified, whatever min_score the handle
\* has now.
C15_NoReprocessingOfSeen ==
    (pc \in {"items", "save", "dump"}) =>
        /\ skipped_tweets = Cardinality(SeenWhenReached(i - 1))
        /\ Len(tweets) = (i - 1) - skipped_tweets
        /\ \A t \in Range(tweets) \cup Range(new_tweets) : t.tweet_id \notin seen_at_entry

C15_Witness ==
    /\ runs = 2
    /\ pc = "save"
    /\ handle = "a"
    /\ MinScore("a") = 4
    /\ ~ai_classification
    /\ classify_count["102"] = 1
    /\ skipped_tweets = 2
    /\ tweets = <<>>

\* The items of the current page from which no id can be extracted.
IdlessItems ==
    {k \in 1..Len(timeline_items) : ExtractId(timeline_items[k].link) = NoId}

\* C16: when a handle pipeline that fetched its page has ended, every item of
\* the page without id was classified in this run, none was counted as
\* skipped, and none left anything in the seen set.
C16_IdlessNeverDeduplicated ==
    (pc = "done" /\ failure # "fetch") =>
        /\ \A k \in IdlessItems :
              \E t \in Range(tweets) :
                  t.tweet_id = NoId /\ t.text = timeline_items[k].text
        /\ skipped_tweets <= Len(timeline_items) - Cardinality(IdlessItems)
        /\ NoId \notin seen_tweet_ids

\* C17: the step of a handle pipeline whose fetch fails ends the pipeline
\* with no result and changes neither the in-memory seen set nor the file,
\* and classifies nothing.
C17_FetchFailureIsCleanSkip ==
    [][(pc = "fetch" /\ failure' = "fetch") =>
          /\ pc' = "done"
          /\ result' = None
          /\ seen_tweet_ids' = seen_tweet_ids
          /\ seen_file' = seen_file
          /\ classify_count' = classify_count
          /\ backend_called' = backend_called]_vars

C17_Witness ==
    /\ pc = "done"
    /\ failure = "fetch"
    /\ result = None
    /\ h > 1
    /\ seen_tweet_ids # {}
    /\ seen_file = JsonFile(seen_tweet_ids)

\* C18: the classifier of a process, and so the availability of its client,
\* never changes after construction, and as long as the client is
\* unavailable no classification of the pipeline has sent a backend request
\* and every classified or emitted tweet has the score of the keyword
\* cascade.
C18_CredentialsDetectedOnce ==
    /\ [][runs' = runs => classifier' = classifier]_vars
    /\ [](~is_ai_available(classifier) =>
              /\ ~backend_called
              /\ \A t \in Range(tweets) \cup Emitted :
                    PyNum(t.importance_score) = simple_keyword_classification(t).score)

C18_Witness ==
    /\ ~is_ai_available(classifier)
    /\ ai_classification
    /\ runs = 2
    /\ pc = "returned"
    /\ Len(combined_tweets) > 1

\* The ids that can be extracted from the items of the current page.
PageIds ==
    {ExtractId(timeline_items[k].link) : k \in 1..Len(timeline_items)} \ {NoId}

\* C19: when a handle pipeline has ended with a result, the in-memory seen
\* set is the seen set at its entry plus the ids of all tweets of the page,
\* kept or filtered.
C19_SeenGrowsByEveryNewId ==
    (pc = "done" /\ result # None) => seen_tweet_ids = seen_at_entry \cup PageIds

C19_Witness ==
    /\ pc = "done"
    /\ result # None
    /\ handle = "a"
    /\ MinScore("a") = 7
    /\ ~ai_classification
    /\ result.new_tweets_count = 1
    /\ result.tweets[1].importance_score = 9
    /\ result.filtered_out_count = 1
    /\ Cardinality(seen_tweet_ids \ seen_at_entry) = 2

\* C20: the ai_provider field of every emitted tweet is the AI provider when
\* the score came from the AI backend (AI requested and available) and
\* "keyword" when it came from the keyword cascade.
C20_ProviderAttribution ==
    \A t \in Emitted :
        t.ai_provider = IF ai_classification /\ is_ai_available(classifier)
                            THEN ai_provider
                        ELSE "keyword"

\* kept is made of records of items of page, taken in page order.
IsSubsequenceOfPage(kept, page) ==
    \E f \in [1..Len(kept) -> 1..Len(page)] :
        /\ \A j, k \in 1..Len(kept) : j < k => f[j] < f[k]
        /\ \A k \in 1..Len(kept) :
              /\ kept[k].tweet_id = ExtractId(page[f[k]].link)
              /\ kept[k].text = page[f[k]].text
              /\ kept[k].is_pinned = page[f[k]].is_pinned
              /\ kept[k].is_retweet = page[f[k]].is_retweet

\* C21: the kept list of a handle result is a subsequence of the fetched
\* page in page order, and every kept record carries its handle, a score and
\* a reason.
C21_PerHandleOutputOrder ==
    (pc = "done" /\ result # None) =>
        /\ IsSubsequenceOfPage(result.tweets, timeline_items)
        /\ \A t \in Range(result.tweets) :
              /\ t.handle = handle
              /\ t.importance_score \in Int
              /\ t.importance_reason # <<>>

C21_Witness ==
    /\ pc = "done"
    /\ result # None
    /\ Len(result.tweets) = 2
    /\ result.tweets[1].importance_score < result.tweets[2].importance_score

\* C22: the tweets_count of a handle result is the number of tweet records on
\* the fetched page, those skipped as already seen included.
C22_TotalOnPage ==
    (pc = "done" /\ result # None) => result.tweets_count = Len(timeline_items)

\* The sum of the kept counts and of the filtered counts over a list of handle
\* results.
RECURSIVE SumNewTweets(_)
SumNewTweets(results) ==
    IF results = <<>> THEN 0
    ELSE Head(results).new_tweets_count + SumNewTweets(Tail(results))

RECURSIVE SumFilteredOut(_)
SumFilteredOut(results) ==
    IF results = <<>> THEN 0
    ELSE Head(results).filtered_out_count + SumFilteredOut(Tail(results))

\* The handles of a run that produced a result, in the order they were run.
SuccessfulHandles ==
    LET ok == SelectSeq(attempted, LAMBDA a : a.ok)
    IN  [k \in 1..Len(ok) |-> ok[k].handle]

\* C23: in the aggregate the number of handles is the number requested, the
\* successful ones are those that produced a result, the important total is
\* the sum of the kept counts and the length of the combined list, the
\* filtered total is the sum of the filtered counts, and a failed handle adds
\* to none of them.
C23_AggregateStatistics ==
    pc = "returned" =>
        /\ total_stats.total_handles = Len(handles)
        /\ total_stats.successful_handles = Len(all_results)
        /\ [k \in 1..Len(all_results) |-> all_results[k].handle] = SuccessfulHandles
        /\ total_stats.total_important_tweets = SumNewTweets(all_results)
        /\ total_stats.total_important_tweets = Len(combined_tweets)
        /\ total_stats.total_filtered_tweets = SumFilteredOut(all_results)

C23_Witness ==
    /\ pc = "returned"
    /\ \E k \in 1..Len(attempted) : ~attempted[k].ok
    /\ Len(all_results) = 2
    /\ total_stats.total_important_tweets > 0
    /\ total_stats.total_filtered_tweets > 0
    /\ \E k \in 1..Len(all_results) :
          all_results[k].tweets_count > all_results[k].new_tweets_count

\* The ids marked by the process since it loaded the seen file.
MarkedInMemory == seen_at_entry \ loaded_at_start

\* C24: a pipeline whose fetch and tweets raised nothing returns its result
\* whether or not the seen file could be written, the aggregator runs every
\* handle of the list, and the ids marked earlier by the process stay in
\* memory and keep their tweets from being classified, whatever the file
\* holds.
C24_PersistenceFailureNonFatal ==
    /\ (pc = "done" /\ failure = "none") =>
          /\ result # None
          /\ result.tweets = new_tweets
    /\ pc = "returned" => Len(attempted) = Len(handles)
    /\ (pc \in {"items", "save", "dump"} \/ (pc = "done" /\ failure # "fetch")) =>
          /\ seen_at_entry \subseteq seen_tweet_ids
          /\ \A t \in Range(tweets) : t.tweet_id \notin MarkedInMemory

C24_Witness ==
    /\ pc = "save"
    /\ h = 3
    /\ handle = "b"
    /\ Len(all_results) = 2
    /\ seen_file = PartialFile
    /\ "102" \in MarkedInMemory
    /\ skipped_tweets = 1

\* The routing of lines 167-172: the AI backend when AI classification is
\* requested and the client is available, the keyword cascade otherwise.
AiRouted == ai_classification /\ is_ai_available(classifier)

\* C25 as stated: the backend is requested exactly in the AI route, and in
\* any other case every classified tweet has the score of the keyword cascade
\* and a reason that carries the fallback marker.
C25_MarkerWheneverKeywordCascade ==
    /\ backend_called => AiRouted
    /\ (AiRouted /\ pc \in {"items", "save", "dump"} /\ tweets # <<>>) => backend_called
    /\ ~AiRouted =>
          \A t \in Range(tweets) \cup Emitted :
              /\ PyNum(t.importance_score) = simple_keyword_classification(t).score
              /\ FALLBACK_MARKER \in Range(t.importance_reason)

\* C25, amended: the backend is requested exactly in the AI route; in any
\* other case every classified tweet has the score and the reason of the
\* keyword cascade, and the reason is followed by the fallback marker exactly
\* when AI classification was requested; no reason of the AI route carries
\* the marker.
C25_ClassifierRouting ==
    /\ backend_called => AiRouted
    /\ (AiRouted /\ pc \in {"items", "save", "dump"} /\ tweets # <<>>) => backend_called
    /\ ~AiRouted =>
          \A t \in Range(tweets) \cup Emitted :
              /\ PyNum(t.importance_score) = simple_keyword_classification(t).score
              /\ t.importance_reason =
                    simple_keyword_classification(t).reason \o
                        (IF ai_classification THEN <<FALLBACK_MARKER>> ELSE <<>>)
    /\ AiRouted =>
          \A t \in Range(tweets) \cup Emitted :
              FALLBACK_MARKER \notin Range(t.importance_reason)

C25_Witness ==
    /\ ~ai_classification
    /\ pc = "returned"
    /\ Len(combined_tweets) = 2
    /\ \A t \in Range(combined_tweets) : FALLBACK_MARKER \notin Range(t.importance_reason)

\* C26: in a handle result the skipped, the kept and the filtered counts add
\* up to the number of records of the fetched page, and new_tweets_count is
\* the length of the list of kept tweets; the same holds of the length in
\* every result the aggregator has collected.
C26_CountPartition ==
    /\ (pc = "done" /\ result # None) =>
          /\ result.skipped_tweets_count + result.new_tweets_count
                + result.filtered_out_count = Len(timeline_items)
          /\ result.new_tweets_count = Len(result.tweets)
    /\ \A k \in 1..Len(all_results) :
          all_results[k].new_tweets_count = Len(all_results[k].tweets)

C26_Witness ==
    /\ pc = "done"
    /\ result # None
    /\ result.skipped_tweets_count = 1
    /\ result.new_tweets_count = 1
    /\ result.filtered_out_count = 0
    /\ Len(timeline_items) = 2

\* The positions of an aggregator run: between two pipelines, inside one, and
\* after the last.
InPipeline == pc \in {"items", "save", "dump", "done"}

InAggregator == pc \in {"fetch", "items", "save", "dump", "done", "sort", "returned"}

\* C27: the aggregator runs the handles in the order of the list given, the
\* configured order when none is given; while the pipeline of the handle at
\* position h runs, the pipelines of the h - 1 handles before it have ended,
\* in list order, and none after it has started; individual_results lists
\* the handles that returned a result in that order.
C27_SequentialHandleOrder ==
    InAggregator =>
        /\ handles \in HandleLists \cup {ConfiguredHandles(handles_config)}
        /\ Len(attempted) = h - 1
        /\ \A k \in 1..Len(attempted) : attempted[k].handle = handles[k]
        /\ InPipeline => h <= Len(handles) /\ handle = handles[h]
        /\ [k \in 1..Len(all_results) |-> all_results[k].handle] = SuccessfulHandles

C27_Witness ==
    /\ pc = "returned"
    /\ handles = <<"c", "a", "b">>
    /\ ~attempted[2].ok
    /\ Len(all_results) = 2
    /\ all_results[1].handle = "c"
    /\ all_results[2].handle = "b"

\* The positions of a list of tweets that carry a tweet id.
WithId(s) == {k \in 1..Len(s) : s[k].tweet_id # NoId}

\* No tweet id occurs at two positions of a list of tweets.
NoIdTwice(s) == \A k, m \in WithId(s) : s[k].tweet_id = s[m].tweet_id => k = m

C29_FailedOnlyFromFetch ==
    [][(pc # "done" /\ pc' = "done" /\ result' = None) => pc = "fetch"]_vars

\* C30: send_batch_notification never raises; when the notifier is not
\* configured or the total is 0 it opens no connection, sends nothing and
\* returns False; when the delivery fails it returns False; it returns True
\* only when a message was sent, and a message is sent only for a total
\* above 0 by a configured notifier.
C30_BatchNotificationGating ==
    (call.fn = "send_batch_notification" /\ ret # None) =>
        /\ ~ret.raised
        /\ (~call.notifier.is_configured \/ call.total_important = 0) =>
              ~ret.connected /\ ~ret.sent /\ ~ret.value
        /\ call.outcome # "delivered" => ~ret.value
        /\ ret.value => ret.sent
        /\ ret.sent => call.total_important > 0 /\ call.notifier.is_configured

C30_Witness ==
    /\ call.fn = "send_batch_notification"
    /\ call.notifier.is_configured
    /\ call.total_important = 0
    /\ call.outcome = "delivered"
    /\ ret # None
    /\ ~ret.value
    /\ ~ret.sent

====
